---- MODULE Spec2Model ----
(***************************************************************************)
(* The omo_task tool of oh-my-opencode (src/tools/omo-task/tools.ts):      *)
(* every invocation of execute() is one task.  execute() is an async       *)
(* function: it runs to its first await, and each later step runs when the *)
(* awaited collaborator call (ctx.client.session.get / create / prompt /   *)
(* messages) is answered.  Invocations interleave at the awaits.           *)
(***************************************************************************)
EXTENDS Integers, Sequences, FiniteSets, TLC

(* ------------------------------- bounds -------------------------------- *)

\* invocations of the tool
NumTasks == 2
\* messages in a fetched history (extraction specification)
MaxMsgs == 2
\* parts in one message (extraction specification)
MaxParts == 2

\* the hunks a patch has at most
MaxHunks == 2

\* the files the prompt takes
MaxPromptFiles == 1

\* the reverts under way at one time
MaxReverts == 1

(* ------------------------------ constants ------------------------------ *)

Tasks == 1..NumTasks

\* constants.ts: ALLOWED_AGENTS
ALLOWED_AGENTS == {"explore", "librarian"}

\* values of args.subagent_type (OmoTaskArgs.subagent_type is a string)
AgentInputs == ALLOWED_AGENTS \cup {"unknown"}

\* args.session_id absent: undefined, falsy in `if (args.session_id)`
NoSessionId == ""

\* values of args.session_id
SessionIdInputs == {NoSessionId, "ses_old"}

\* toolContext.sessionID, the session that invoked the tool
ParentSession == "ses_parent"

\* createResult.data.id: the collaborator gives every created session a new id
NewSessionId(t) == <<"ses_c1", "ses_c2", "ses_c3", "ses_c4", "ses_c5", "ses_c6">>[t]

\* the `error` field of a collaborator's answer: absent (falsy) or an error
NoError == ""

ErrorValues == {"E1"}

\* a task not yet invoked has no arguments
NoArgs == [subagent_type |-> "", session_id |-> NoSessionId]

(* ------------------------------ messages ------------------------------- *)

\* m.info.time?.created : the time is absent (<<>>) or holds one number
TimeInputs == {<<>>, <<1>>, <<2>>}

\* a part is a text part or another part (a tool call); a message at position i
\* of the history gets texts of its own, so that every text names its place
PartTypeInputs == {"text", "tool"}

RECURSIVE SeqsUpTo(_, _)
SeqsUpTo(S, n) ==
  IF n = 0 THEN {<<>>}
  ELSE LET shorter == SeqsUpTo(S, n - 1)
       IN  shorter \cup {Append(s, x) : s \in {q \in shorter : Len(q) = n - 1}, x \in S}

\* an assistant message has any parts; a user message is one text part
MessageShapes ==
  [role : {"assistant"}, time : TimeInputs, types : SeqsUpTo(PartTypeInputs, MaxParts)]
    \cup [role : {"user"}, time : TimeInputs, types : {<<"text">>}]

\* p.text of part j of the message at position i: every text names its place
TextAt(i, j) ==
  << <<"t11", "t12", "t13", "t14">>, <<"t21", "t22", "t23", "t24">>,
     <<"t31", "t32", "t33", "t34">>, <<"t41", "t42", "t43", "t44">> >>[i][j]

\* the message at position i of a history, with the shape sh
MessageAt(i, sh) ==
  [role  |-> sh.role,
   time  |-> sh.time,
   parts |-> [j \in 1..Len(sh.types) |-> [type |-> sh.types[j], text |-> TextAt(i, j)]]]

History(shapes) == [i \in 1..Len(shapes) |-> MessageAt(i, shapes[i])]

Histories == {History(shapes) : shapes \in SeqsUpTo(MessageShapes, MaxMsgs)}

Part(ty, tx) == [type |-> ty, text |-> tx]

Msg(r, tm, ps) == [role |-> r, time |-> tm, parts |-> ps]

\* the histories a fetch answers with in the task specification
FetchSamples ==
  { <<>>,
    << Msg("user", <<1>>, <<Part("text", TextAt(1, 1))>>) >>,
    << Msg("assistant", <<1>>, <<Part("text", TextAt(1, 1))>>),
       Msg("user", <<2>>, <<Part("text", TextAt(2, 1))>>),
       Msg("assistant", <<2>>, <<Part("text", TextAt(3, 1)), Part("tool", TextAt(3, 2)),
                                 Part("text", TextAt(3, 3))>>) >>,
    << Msg("user", <<1>>, <<Part("text", TextAt(1, 1))>>),
       Msg("assistant", <<>>, <<Part("tool", TextAt(2, 1))>>) >> }

(* --------------------- tools.ts 88-108: extraction --------------------- *)

IsAssistant(m) == m.role = "assistant"

\* messages.filter((m) => m.info.role === "assistant"), order kept
RECURSIVE AssistantMessages(_)
AssistantMessages(s) ==
  IF s = <<>> THEN <<>>
  ELSE IF IsAssistant(Head(s)) THEN <<Head(s)>> \o AssistantMessages(Tail(s))
       ELSE AssistantMessages(Tail(s))

\* (m.info.time?.created || 0)
Created(m) == IF m.time = <<>> THEN 0 ELSE m.time[1]

\* Array.prototype.sort with the comparator (a, b) => created(b) - created(a):
\* a stable sort, descending by creation time.  Insertion after the last
\* element that is not older keeps equal elements in their original order.
RECURSIVE InsertDesc(_, _)
InsertDesc(m, sorted) ==
  IF sorted = <<>> THEN <<m>>
  ELSE IF Created(Head(sorted)) >= Created(m)
       THEN <<Head(sorted)>> \o InsertDesc(m, Tail(sorted))
       ELSE <<m>> \o sorted

RECURSIVE SortDesc(_)
SortDesc(s) ==
  IF s = <<>> THEN <<>>
  ELSE InsertDesc(s[Len(s)], SortDesc(SubSeq(s, 1, Len(s) - 1)))

\* the assistant messages in the order fetched, the last one first: what
\* taking the last assistant message of the list would select
RECURSIVE Reversed(_)
Reversed(s) == IF s = <<>> THEN <<>> ELSE Append(Reversed(Tail(s)), Head(s))

SortedAssistants_ListOrder(messages) == Reversed(AssistantMessages(messages))

\* messages.filter(role === "assistant").sort(...) ; [0] is its head
SortedAssistants(messages) == SortDesc(AssistantMessages(messages))

IsTextPart(p) == p.type = "text"

\* lastAssistantMessage.parts.filter((p) => p.type === "text"), order kept
RECURSIVE TextParts(_)
TextParts(s) ==
  IF s = <<>> THEN <<>>
  ELSE IF IsTextPart(Head(s)) THEN <<Head(s)>> \o TextParts(Tail(s))
       ELSE TextParts(Tail(s))

\* textParts.map(p => p.text).join("\n")
RECURSIVE JoinNewline(_)
JoinNewline(texts) ==
  IF texts = <<>> THEN <<>>
  ELSE IF Len(texts) = 1 THEN <<texts[1]>>
       ELSE <<texts[1], "\n">> \o JoinNewline(Tail(texts))

TextsOf(parts) == [j \in 1..Len(parts) |-> parts[j].text]

ResponseText(m) == JoinNewline(TextsOf(TextParts(m.parts)))

\* the strings execute() returns
ErrorReturn(what, detail, sid) ==
  [kind |-> "Error", what |-> what, detail |-> detail, text |-> <<>>, session_id |-> sid]

OutputReturn(text, sid) ==
  [kind |-> "output", what |-> "", detail |-> "", text |-> text, session_id |-> sid]

\* an extraction without the check of line 92: no assistant message gives an
\* output with no text
ExtractOutput_NoCheck(messages, sid) ==
  LET sorted == SortedAssistants(messages)
  IN  IF sorted = <<>>
      THEN [kind |-> "output", what |-> "", detail |-> "", text |-> <<>>, session_id |-> sid]
      ELSE [kind |-> "output", what |-> "", detail |-> "",
            text |-> ResponseText(sorted[1]), session_id |-> sid]

\* lines 88-108: the value returned once the messages were fetched
ExtractOutput(messages, sid) ==
  LET sorted == SortedAssistants(messages)
  IN  IF sorted = <<>>
      THEN ErrorReturn("No assistant response found", "", sid)
      ELSE OutputReturn(ResponseText(sorted[1]), sid)

(* -------------------------------- state -------------------------------- *)

VARIABLES
  pc,         \* per task: where execute() stands
  args,       \* per task: the arguments of the invocation
  sessionID,  \* per task: the local sessionID
  calls,      \* per task: the collaborator calls made, in order
  messages,   \* per task: messagesResult.data, once fetched
  outcomes,   \* per task: the values execute() has returned to its caller
  exIn,       \* extraction specification: the fetched history
  exOut,      \* extraction specification: the value returned for it
  exPc,       \* extraction specification: "fetched" or "returned"
  sessionStates,  \* interactive-bash hook: the Map sessionStates
  persisted,      \* interactive-bash hook: the states the storage holds
  lastCall,       \* interactive-bash hook: the input of the last tool.execute.after
  reminder,       \* interactive-bash hook: what that call added to output.output
  lastEvent,      \* interactive-bash hook: the last event given to eventHandler
  deletion,       \* interactive-bash hook: per session, the run of eventHandler
  tui             \* TUI explorer: the signals of its provider and components

taskVars == <<pc, args, sessionID, calls, messages, outcomes>>
exVars == <<exIn, exOut, exPc>>
bashVars == <<sessionStates, persisted, lastCall, reminder, lastEvent, deletion>>
tuiVars == <<tui>>
vars == <<taskVars, exVars, bashVars, tuiVars>>

(* ------------------------- collaborator calls -------------------------- *)

\* body.tools of a call that carries none
NoTools == [task |-> TRUE, omo_task |-> TRUE]

\* a prompt that forgets to disable omo_task itself
PromptTools_TaskOnly == [task |-> FALSE, omo_task |-> TRUE]

\* lines 66-69: tools: { task: false, omo_task: false }
PromptTools == [task |-> FALSE, omo_task |-> FALSE]

Call(op, id, parentID, agent, tools) ==
  [op |-> op, id |-> id, parentID |-> parentID, agent |-> agent, tools |-> tools,
   state |-> "pending", error |-> NoError]

\* the awaited call is answered: with an error field, or without
Answered(c, err) ==
  [c EXCEPT !.state = IF err = NoError THEN "ok" ELSE "error", !.error = err]

AnswerLast(cs, err) == [cs EXCEPT ![Len(cs)] = Answered(cs[Len(cs)], err)]

\* lines 62-72
PromptCall(t, sid) == Call("session.prompt", sid, "", args[t].subagent_type, PromptTools)

\* a fetch from the session that invoked the tool
MessagesCall_Parent(sid) == Call("session.messages", ParentSession, "", "", NoTools)

\* lines 76-78
MessagesCall(sid) == Call("session.messages", sid, "", "", NoTools)

\* a validation that lets every agent through
IsAllowedAgent_Any(a) == a \in AgentInputs

\* line 25: ALLOWED_AGENTS.includes(args.subagent_type)
IsAllowedAgent(a) == a \in ALLOWED_AGENTS

Return(t, v) == outcomes' = [outcomes EXCEPT ![t] = Append(@, v)]

(* -------------------- interactive-bash session hook -------------------- *)

\* the opencode sessions whose tool calls the hook sees
OcSessions == {"ses_1", "ses_2"}

\* input.tool of a tool.execute.after call
ToolInputs == {"interactive_bash", "Interactive_Bash", "bash"}

\* args.tmux_command of the calls; "" is what line 80 makes of a missing one
TmuxCommands ==
  { "new-session -d -s omo-a",
    "new-session -d -s omo-b",
    "new-session -d -s dev",
    "new-session -d",
    "new-session -d -t dev -s omo-c",
    "kill-session -t omo-a",
    "kill-session -t omo-b",
    "kill-session -t dev",
    "kill-server",
    "send-keys -t omo-a ls Enter",
    "send-keys -t omo-a 'echo kill-server' Enter",
    "send-keys -t omo-b 'echo new-session' Enter",
    "capture-pane -p -t omo-b",
    "list-sessions",
    "" }

\* the pattern the tool's description gives for tracked session names
OMO_SESSION_PREFIX == "omo-"

CharAt(s, i) == SubSeq(s, i, i)

UpperCase == "ABCDEFGHIJKLMNOPQRSTUVWXYZ"

LowerCase == "abcdefghijklmnopqrstuvwxyz"

LowerChar(c) ==
  IF \E i \in 1..Len(UpperCase) : CharAt(UpperCase, i) = c
    THEN CharAt(LowerCase, CHOOSE i \in 1..Len(UpperCase) : CharAt(UpperCase, i) = c)
    ELSE c

RECURSIVE ToLowerCase(_)
\* line 74: tool.toLowerCase()
ToLowerCase(s) ==
  IF s = "" THEN "" ELSE LowerChar(CharAt(s, 1)) \o ToLowerCase(SubSeq(s, 2, Len(s)))

\* String.prototype.includes
Includes(s, w) ==
  \E i \in 1..(Len(s) + 1 - Len(w)) : SubSeq(s, i, i + Len(w) - 1) = w

\* String.prototype.startsWith
StartsWith(s, p) == Len(s) >= Len(p) /\ SubSeq(s, 1, Len(p)) = p

\* \s of the regular expression, on the characters the commands use
IsSpace(c) == c \in {" ", "\t", "\n"}

RECURSIVE SkipSpaces(_, _)
\* \s+ from position j: the first position after the run of spaces
SkipSpaces(s, j) ==
  IF j <= Len(s) /\ IsSpace(CharAt(s, j)) THEN SkipSpaces(s, j + 1) ELSE j

RECURSIVE WordEnd(_, _)
\* (\S+) from position j: the last position of the run of non-spaces
WordEnd(s, j) ==
  IF j + 1 <= Len(s) /\ ~IsSpace(CharAt(s, j + 1)) THEN WordEnd(s, j + 1) ELSE j

\* the regular expression matches with its -s or -t at position i
FlagMatchAt(s, i) ==
  /\ i + 2 <= Len(s)
  /\ SubSeq(s, i, i + 1) \in {"-s", "-t"}
  /\ IsSpace(CharAt(s, i + 2))
  /\ SkipSpaces(s, i + 2) <= Len(s)

\* null of extractSessionNameFromFlags; (\S+) never captures ""
NoSessionName == ""

\* lines 46-49: tmuxCommand.match(/(?:-s|-t)\s+(\S+)/)?.[1] ?? null, the
\* leftmost match
extractSessionNameFromFlags(tmuxCommand) ==
  LET at == {i \in 1..Len(tmuxCommand) : FlagMatchAt(tmuxCommand, i)}
      first == CHOOSE i \in at : \A k \in at : i <= k
      from == SkipSpaces(tmuxCommand, first + 2)
  IN IF at = {} THEN NoSessionName
     ELSE SubSeq(tmuxCommand, from, WordEnd(tmuxCommand, from))

\* a test that forgets the prefix
isOmoSession_AnyName(sessionName) == sessionName # NoSessionName

\* lines 51-53
isOmoSession(sessionName) ==
  sessionName # NoSessionName /\ StartsWith(sessionName, OMO_SESSION_PREFIX)

\* lines 74 and 84-90, worked out once for each input
toolLower == [tool \in ToolInputs |-> ToLowerCase(tool)]

CommandFacts ==
  [tmuxCommand \in TmuxCommands |->
     [hasNewSession |-> Includes(tmuxCommand, "new-session"),
      hasKillSession |-> Includes(tmuxCommand, "kill-session"),
      hasKillServer |-> Includes(tmuxCommand, "kill-server"),
      sessionName |-> extractSessionNameFromFlags(tmuxCommand),
      isOmoSession |-> isOmoSession(extractSessionNameFromFlags(tmuxCommand))]]

\* a Set<string> in insertion order
SetHas(set, x) == \E i \in DOMAIN set : set[i] = x

SetAdd(set, x) == IF SetHas(set, x) THEN set ELSE Append(set, x)

SetDelete(set, x) == SelectSeq(set, LAMBDA y : y # x)

EmptySet == <<>>

\* no state held for a session: absent from the Map, no file in the storage
NoState == [has |-> FALSE, tmuxSessions |-> EmptySet]

State(set) == [has |-> TRUE, tmuxSessions |-> set]

\* ./storage: load returns what save stored for the session, or null
loadInteractiveBashSessionState(store, sid) == store[sid]

saveInteractiveBashSessionState(store, sid, set) == [store EXCEPT ![sid] = State(set)]

\* lines 33-44
getOrCreateState(map, store, sid) ==
  IF map[sid].has THEN map[sid]
  ELSE IF loadInteractiveBashSessionState(store, sid).has
         THEN loadInteractiveBashSessionState(store, sid)
         ELSE State(EmptySet)

\* ./constants: the reminder lists the tracked sessions, "" when there are none
NoReminder == <<>>

buildSessionReminderMessage(sessions) == sessions

NoCall == [tool |-> "", sessionID |-> "", tmux_command |-> ""]

\* ./storage: clear removes what the storage holds for the session
clearInteractiveBashSessionState(store, sid) == [store EXCEPT ![sid] = NoState]

\* an event as eventHandler reads it: its type and properties.info.id, "" when
\* the event carries no id
Event(type, id) == [type |-> type, id |-> id]

NoEvent == Event("", "")

\* the run of eventHandler on session.deleted of a session: where it stands,
\* how many entries of the Set the for-of has passed, the name whose
\* kill-session it awaits, the names it has spawned or tried to spawn a
\* kill-session for, and those whose kill-session failed
Run(at, pos, awaited, kills, failed) ==
  [pc |-> at, pos |-> pos, awaited |-> awaited, kills |-> kills, failed |-> failed]

NoRun == Run("idle", 0, "", {}, {})

\* where the for-of stands after the Set went from old to new: the entries it
\* has passed and that are still in the Set stay behind it, entries added are
\* ahead of it (lines 58, 90-99)
IteratorAfter(old, new, pos) ==
  Cardinality({i \in 1..Len(old) : i <= pos /\ SetHas(new, old[i])})

\* a loop that a kill-session that cannot be spawned ends
killAllTrackedSessions_StopAtFailure(set, run, spawns) ==
  IF run.pos >= Len(set)
    THEN Run("done", 0, "", run.kills, run.failed)
  ELSE IF spawns
    THEN Run("awaiting", run.pos + 1, set[run.pos + 1],
             run.kills \cup {set[run.pos + 1]}, run.failed)
  ELSE Run("done", 0, "", run.kills \cup {set[run.pos + 1]},
           run.failed \cup {set[run.pos + 1]})

\* lines 55-67, from where the for-of stands up to the next await or to its
\* end: spawns is whether Bun.spawn starts tmux or throws
killAllTrackedSessions(set, run, spawns) ==
  IF run.pos >= Len(set)
    THEN Run("done", 0, "", run.kills, run.failed)
  ELSE IF spawns
    THEN Run("awaiting", run.pos + 1, set[run.pos + 1],
             run.kills \cup {set[run.pos + 1]}, run.failed)
  ELSE LET rest == {set[i] : i \in (run.pos + 1)..Len(set)}
       IN Run("done", 0, "", run.kills \cup rest, run.failed \cup rest)

(* ------------------------------ TUI explorer --------------------------- *)

MIN_WIDTH == 20

MAX_WIDTH == 80

DEFAULT_SIDEBAR_WIDTH == 35

DEFAULT_PREVIEW_WIDTH == 50

Min(a, b) == IF a <= b THEN a ELSE b

Max(a, b) == IF a >= b THEN a ELSE b

\* the project the explorer lists: a directory with one file, and a file
Node(path, type) == [path |-> path, type |-> type]

RootNodes == <<Node("src", "directory"), Node("README.md", "file")>>

DirNodes(path) == IF path = "src" THEN <<Node("src/a.ts", "file")>> ELSE <<>>

\* selected() === undefined
NoSelection == Node("", "")

\* session_diff of the session: the changed files, each with the hunks its
\* before/after patch has
Change(file, hunks) == [file |-> file, hunks |-> hunks]

\* previewContent() === undefined
NoContent == [has |-> FALSE, path |-> "", patchHunks |-> 0]

\* the value of the preview resource for a file, with the hunks of its patch
Content(path, patchHunks) == [has |-> TRUE, path |-> path, patchHunks |-> patchHunks]

\* no call of sdk.client.file.write yet
NoWrite == [path |-> "", content |-> "", patch |-> "", hunk |-> 0]

\* lastClick() === undefined
NoClick == ""

\* the signals of ExplorerProvider, of its components and of the prompt,
\* after construction
TuiStart ==
  [visible |-> FALSE,
   focused |-> FALSE,
   tab |-> "explorer",
   selected |-> NoSelection,
   expanded |-> {},
   focusIndex |-> 0,
   sidebarWidth |-> DEFAULT_SIDEBAR_WIDTH,
   previewWidth |-> DEFAULT_PREVIEW_WIDTH,
   resizing |-> FALSE,
   previewResizing |-> FALSE,
   hunkIndex |-> 0,
   promptFocused |-> TRUE,
   promptFiles |-> <<>>,
   rootLoaded |-> FALSE,
   loadedDirs |-> {},
   lastClick |-> NoClick,
   pendingSelection |-> NoSelection,
   sessionChanges |-> <<>>,
   content |-> NoContent,
   written |-> NoWrite,
   writing |-> {},
   reselect |-> {}]

\* part_003 114-120
setVisible(u, v) == [u EXCEPT !.visible = v, !.focused = v]

setFocused(u, f) == [u EXCEPT !.focused = f]

setTab(u, t) == [u EXCEPT !.tab = t]

setFocusIndex(u, i) == [u EXCEPT !.focusIndex = i]

\* setSelected, with FilePreview's effect on selected() (file-preview.tsx
\* 162-165): every new value of the signal puts the hunk index back to 0
setSelected(u, s) ==
  IF s = NoSelection /\ u.selected = NoSelection THEN u
  ELSE [u EXCEPT !.selected = s, !.hunkIndex = 0]

\* part_003 78-88
toggleExpanded(u, path) ==
  [u EXCEPT !.expanded = IF path \in @ THEN @ \ {path} ELSE @ \cup {path}]

Clamp(width) == Max(MIN_WIDTH, Min(MAX_WIDTH, width))

\* a setter that keeps only the lower bound
setSidebarWidth_NoMax(u, width) == [u EXCEPT !.sidebarWidth = Max(MIN_WIDTH, width)]

\* part_003 62-64
setSidebarWidth(u, width) == [u EXCEPT !.sidebarWidth = Clamp(width)]

\* part_003 66-68
setPreviewWidth(u, width) == [u EXCEPT !.previewWidth = Clamp(width)]

\* part_003 70-72
adjustSidebarWidth(u, delta) == setSidebarWidth(u, u.sidebarWidth + delta)

\* part_003 74-76
adjustPreviewWidth(u, delta) == setPreviewWidth(u, u.previewWidth + delta)

\* promptRef.current?.blur() and .focus()
promptBlur(u) == [u EXCEPT !.promptFocused = FALSE]

promptFocus(u) == [u EXCEPT !.promptFocused = TRUE]

\* promptRef.current?.addFile(path, ...)
addFile(u, path) == [u EXCEPT !.promptFiles = Append(@, path)]

RECURSIVE addNodes(_, _)
\* file-tree.tsx 51-67: the children of a directory follow it when it is
\* expanded and its listing has arrived
addNodes(u, items) ==
  IF items = <<>> THEN <<>>
  ELSE LET item == Head(items)
           below == IF item.type = "directory" /\ item.path \in u.expanded
                       /\ item.path \in u.loadedDirs
                      THEN addNodes(u, DirNodes(item.path))
                      ELSE <<>>
       IN <<item>> \o below \o addNodes(u, Tail(items))

\* file-tree.tsx 46-73
flatList(u) == IF u.rootLoaded THEN addNodes(u, RootNodes) ELSE <<>>

\* list[idx] of a JavaScript array exists
HasIndex(list, idx) == 0 <= idx /\ idx < Len(list)

\* list[idx], for an index that exists
At(list, idx) == list[idx + 1]

\* file-preview.tsx 21-25: the positions of the session diffs of the selection
sessionDiffs(u) ==
  {i \in DOMAIN u.sessionChanges :
     u.selected # NoSelection /\ u.sessionChanges[i].file = u.selected.path}

\* file-preview.tsx 27-46, 155: hunkCount()
hunkCount(u) ==
  IF u.content.has /\ u.content.patchHunks > 0 THEN u.content.patchHunks
  ELSE IF sessionDiffs(u) # {}
    THEN u.sessionChanges[CHOOSE i \in sessionDiffs(u) : \A k \in sessionDiffs(u) : i <= k].hunks
  ELSE 0

\* file-preview.tsx 150-153
hasDiff(u) == hunkCount(u) > 0

\* the list component the Switch of the sidebar has mounted (part_001 118, 170-177)
MountedList(u) == IF u.visible THEN u.tab ELSE "none"

\* the list of the mounted component
ActiveList(u) ==
  IF u.tab = "explorer" THEN flatList(u) ELSE u.sessionChanges

\* the effects without the one that keeps the hunk index below hunkCount()
Effects_NoHunkClamp(u) ==
  LET n == Len(ActiveList(u))
  IN IF u.visible /\ u.focusIndex >= n
       THEN setFocusIndex(u, Max(0, n - 1)) ELSE u

\* file-tree.tsx 119-124 and git-changes.tsx 38-43, of the mounted list
\* component; file-preview.tsx 157-160
Effects(u) ==
  LET n == Len(ActiveList(u))
      a == IF u.visible /\ u.focusIndex >= n
             THEN setFocusIndex(u, Max(0, n - 1)) ELSE u
  IN IF a.hunkIndex >= hunkCount(a)
       THEN [a EXCEPT !.hunkIndex = Max(0, hunkCount(a) - 1)] ELSE a

\* what the signals are once a handler has run on u and left v: a FileTree
\* that was mounted by it starts with fresh resources (file-tree.tsx 29-44),
\* and the effects have run
Settle(u, v) ==
  Effects(IF MountedList(v) = "explorer" /\ MountedList(u) # "explorer"
            THEN [v EXCEPT !.rootLoaded = FALSE, !.loadedDirs = {}]
            ELSE v)

\* a key event
Key(name) == [name |-> name, ctrl |-> FALSE, meta |-> FALSE, shift |-> FALSE]

Ctrl(name) == [name |-> name, ctrl |-> TRUE, meta |-> FALSE, shift |-> FALSE]

CtrlShift(name) == [name |-> name, ctrl |-> TRUE, meta |-> FALSE, shift |-> TRUE]

\* a Ctrl+E that only ever shows the explorer
SidebarKey_NoToggle(u, evt) ==
  LET ctrl == evt.ctrl /\ ~evt.meta /\ ~evt.shift
  IN IF ctrl /\ evt.name \in {"e", "b"}
       THEN promptBlur(setFocused(IF ~u.visible THEN setVisible(u, TRUE) ELSE u, TRUE))
     ELSE IF ~u.visible \/ ~u.focused THEN u
     ELSE IF evt.name = "escape"
       THEN IF u.selected # NoSelection
              THEN setSelected(u, NoSelection)
              ELSE promptFocus(setFocused(u, FALSE))
     ELSE IF evt.name = "i" THEN promptFocus(setFocused(u, FALSE))
     ELSE IF evt.name = "1" THEN setFocusIndex(setTab(u, "explorer"), 0)
     ELSE IF evt.name = "2" THEN setFocusIndex(setTab(u, "changes"), 0)
     ELSE IF evt.name = "tab"
       THEN setFocusIndex(setTab(u, IF u.tab = "explorer" THEN "changes" ELSE "explorer"), 0)
     ELSE IF evt.name = "[" THEN adjustSidebarWidth(u, -5)
     ELSE IF evt.name = "]" THEN adjustSidebarWidth(u, 5)
     ELSE u

\* part_001 20-86: the keyboard handler of ExplorerSidebar
SidebarKey(u, evt) ==
  LET ctrl == evt.ctrl /\ ~evt.meta /\ ~evt.shift
  IN IF ctrl /\ evt.name = "e"
       THEN IF u.visible
              THEN setFocused(setSelected(setVisible(u, FALSE), NoSelection), FALSE)
              ELSE promptBlur(setFocused(setVisible(u, TRUE), TRUE))
     ELSE IF ctrl /\ evt.name = "b"
       THEN promptBlur(setFocused(IF ~u.visible THEN setVisible(u, TRUE) ELSE u, TRUE))
     ELSE IF ~u.visible \/ ~u.focused THEN u
     ELSE IF evt.name = "escape"
       THEN IF u.selected # NoSelection
              THEN setSelected(u, NoSelection)
              ELSE promptFocus(setFocused(u, FALSE))
     ELSE IF evt.name = "i" THEN promptFocus(setFocused(u, FALSE))
     ELSE IF evt.name = "1" THEN setFocusIndex(setTab(u, "explorer"), 0)
     ELSE IF evt.name = "2" THEN setFocusIndex(setTab(u, "changes"), 0)
     ELSE IF evt.name = "tab"
       THEN setFocusIndex(setTab(u, IF u.tab = "explorer" THEN "changes" ELSE "explorer"), 0)
     ELSE IF evt.name = "[" THEN adjustSidebarWidth(u, -5)
     ELSE IF evt.name = "]" THEN adjustSidebarWidth(u, 5)
     ELSE u

\* file-tree.tsx 17
FileTreeNavKeys == {"up", "down", "left", "right", "return", "p", "n"}

\* an Enter that adds the file to the prompt at once
FileTreeKey_EnterAdds(u, evt) ==
  IF ~u.visible \/ ~u.focused \/ u.tab # "explorer" THEN u
  ELSE IF evt.name \notin FileTreeNavKeys THEN u
  ELSE LET list == flatList(u)
           idx == u.focusIndex
       IN IF evt.name = "up" \/ (evt.ctrl /\ evt.name = "p")
            THEN setFocusIndex(u, Max(0, idx - 1))
          ELSE IF evt.name = "down" \/ (evt.ctrl /\ evt.name = "n")
            THEN setFocusIndex(u, Min(Len(list) - 1, idx + 1))
          ELSE IF evt.name = "return" /\ HasIndex(list, idx)
            THEN IF At(list, idx).type = "directory"
                   THEN setSelected(toggleExpanded(u, At(list, idx).path), At(list, idx))
                   ELSE addFile(setSelected(u, At(list, idx)), At(list, idx).path)
          ELSE IF evt.name = "right" /\ HasIndex(list, idx)
                  /\ At(list, idx).type = "directory" /\ At(list, idx).path \notin u.expanded
            THEN toggleExpanded(u, At(list, idx).path)
          ELSE IF evt.name = "left" /\ HasIndex(list, idx)
                  /\ At(list, idx).type = "directory" /\ At(list, idx).path \in u.expanded
            THEN toggleExpanded(u, At(list, idx).path)
          ELSE u

\* file-tree.tsx 75-117: the keyboard handler of FileTree
FileTreeKey(u, evt) ==
  IF ~u.visible \/ ~u.focused \/ u.tab # "explorer" THEN u
  ELSE IF evt.name \notin FileTreeNavKeys THEN u
  ELSE LET list == flatList(u)
           idx == u.focusIndex
       IN IF evt.name = "up" \/ (evt.ctrl /\ evt.name = "p")
            THEN setFocusIndex(u, Max(0, idx - 1))
          ELSE IF evt.name = "down" \/ (evt.ctrl /\ evt.name = "n")
            THEN setFocusIndex(u, Min(Len(list) - 1, idx + 1))
          ELSE IF evt.name = "return" /\ HasIndex(list, idx)
            THEN IF At(list, idx).type = "directory"
                   THEN setSelected(toggleExpanded(u, At(list, idx).path), At(list, idx))
                 ELSE IF u.selected.path = At(list, idx).path
                   THEN addFile(u, At(list, idx).path)
                 ELSE setSelected(u, At(list, idx))
          ELSE IF evt.name = "right" /\ HasIndex(list, idx)
                  /\ At(list, idx).type = "directory" /\ At(list, idx).path \notin u.expanded
            THEN toggleExpanded(u, At(list, idx).path)
          ELSE IF evt.name = "left" /\ HasIndex(list, idx)
                  /\ At(list, idx).type = "directory" /\ At(list, idx).path \in u.expanded
            THEN toggleExpanded(u, At(list, idx).path)
          ELSE u

\* git-changes.tsx 7
GitChangesNavKeys == {"up", "down", "return", "p", "n"}

\* git-changes.tsx 16-36: the keyboard handler of GitChanges
GitChangesKey(u, evt) ==
  IF ~u.visible \/ ~u.focused \/ u.tab # "changes" THEN u
  ELSE IF evt.name \notin GitChangesNavKeys THEN u
  ELSE LET list == u.sessionChanges
           idx == u.focusIndex
       IN IF evt.name = "up" \/ (evt.ctrl /\ evt.name = "p")
            THEN setFocusIndex(u, Max(0, idx - 1))
          ELSE IF evt.name = "down" \/ (evt.ctrl /\ evt.name = "n")
            THEN setFocusIndex(u, Min(Len(list) - 1, idx + 1))
          ELSE IF evt.name = "return" /\ HasIndex(list, idx)
            THEN setSelected(u, Node(At(list, idx).file, "file"))
          ELSE u

\* the file whose patch diffPatch() is: that of the preview resource's value
\* when it has hunks, else that of the session diff of the selection
PatchOf(u) ==
  IF u.content.has /\ u.content.patchHunks > 0 THEN u.content.path ELSE u.selected.path

\* the file whose text currentContent is (file-preview.tsx 56)
ContentOf(u) == IF u.content.has THEN u.content.path ELSE u.selected.path

\* the last call of sdk.client.file.write: the path written, the files whose text
\* and whose patch made the content, the hunk undone
Write(path, content, patch, hunk) ==
  [path |-> path, content |-> content, patch |-> patch, hunk |-> hunk]

\* file-preview.tsx 48-80, up to the await: applies is whether applyPatch
\* could place the reversed hunk
revertHunk(u, idx, applies) ==
  IF (~u.content.has \/ u.content.patchHunks = 0) /\ sessionDiffs(u) = {} THEN u
  ELSE IF u.selected = NoSelection THEN u
  ELSE IF ~(0 <= idx /\ idx < hunkCount(u)) THEN u
  ELSE IF ~u.content.has /\ sessionDiffs(u) = {} THEN u
  ELSE IF ~applies THEN u
  ELSE [u EXCEPT !.written = Write(u.selected.path, ContentOf(u), PatchOf(u), idx),
                 !.writing = @ \cup {u.selected}]

\* file-preview.tsx 85-111: the keyboard handler of FilePreview
FilePreviewKey(u, evt, applies) ==
  IF u.selected = NoSelection \/ ~u.visible \/ ~u.focused THEN u
  ELSE IF evt.name = "escape" THEN setSelected(u, NoSelection)
  ELSE IF evt.name = "{" THEN adjustPreviewWidth(u, 5)
  ELSE IF evt.name = "}" THEN adjustPreviewWidth(u, -5)
  ELSE IF hasDiff(u)
    THEN IF evt.name \in {"j", "down"}
           THEN [u EXCEPT !.hunkIndex = Min(@ + 1, hunkCount(u) - 1)]
         ELSE IF evt.name \in {"k", "up"}
           THEN [u EXCEPT !.hunkIndex = Max(@ - 1, 0)]
         ELSE IF evt.name = "r"
           THEN revertHunk(u, u.hunkIndex, applies)
         ELSE u
  ELSE u

\* the orders in which the handlers registered with useKeyboard get a key:
\* FileTree and GitChanges are mounted inside ExplorerSidebar and register
\* after it; where FilePreview registers is decided outside these components
HandlerOrders ==
  { <<"preview", "sidebar", "list">>,
    <<"sidebar", "preview", "list">>,
    <<"sidebar", "list", "preview">> }

\* one handler on the key: the list handler is that of the component that
\* was mounted when the key arrived
RunHandler(h, mounted, u, evt, applies) ==
  IF h = "sidebar" THEN Settle(u, SidebarKey(u, evt))
  ELSE IF h = "preview" THEN Settle(u, FilePreviewKey(u, evt, applies))
  ELSE IF mounted = "explorer" THEN Settle(u, FileTreeKey(u, evt))
  ELSE IF mounted = "changes" THEN Settle(u, GitChangesKey(u, evt))
  ELSE u

\* every handler on the key, in the given order
Dispatch(u, evt, order, applies) ==
  LET mounted == MountedList(u)
      a == RunHandler(order[1], mounted, u, evt, applies)
      b == RunHandler(order[2], mounted, a, evt, applies)
  IN RunHandler(order[3], mounted, b, evt, applies)

\* part_001 88-91
handleClose(u) == setSelected(setVisible(u, FALSE), NoSelection)

\* part_001 93-96
handleFocus(u) == promptBlur(setFocused(u, TRUE))

\* part_001 98-102
handleOpen(u) == promptBlur(setFocused(setVisible(u, TRUE), TRUE))

\* file-tree.tsx 149-177
FileTreeClick(u, index, fast) ==
  LET node == At(flatList(u), index)
  IN IF u.lastClick = node.path /\ fast
       THEN LET a == [u EXCEPT !.pendingSelection = NoSelection, !.lastClick = NoClick]
            IN IF node.type = "file" THEN addFile(a, node.path) ELSE a
       ELSE LET a == setFocusIndex(
                       promptBlur(setFocused([u EXCEPT !.lastClick = node.path], TRUE)),
                       index)
            IN IF node.type = "directory"
                 THEN toggleExpanded(a, node.path)
                 ELSE [a EXCEPT !.pendingSelection = node]

\* git-changes.tsx 57-62
GitChangesClick(u, index) ==
  setSelected(setFocusIndex(promptBlur(setFocused(u, TRUE)), index),
              Node(At(u.sessionChanges, index).file, "file"))

(* -------------------------------- Init --------------------------------- *)

TaskInit ==
  /\ pc = [t \in Tasks |-> "idle"]
  /\ args = [t \in Tasks |-> NoArgs]
  /\ sessionID = [t \in Tasks |-> NoSessionId]
  /\ calls = [t \in Tasks |-> <<>>]
  /\ messages = [t \in Tasks |-> <<>>]
  /\ outcomes = [t \in Tasks |-> <<>>]

ExIdle ==
  /\ exIn = <<>>
  /\ exOut = <<>>
  /\ exPc = "off"

BashIdle ==
  /\ sessionStates = [s \in OcSessions |-> NoState]
  /\ persisted = [s \in OcSessions |-> NoState]
  /\ lastCall = NoCall
  /\ reminder = NoReminder
  /\ lastEvent = NoEvent
  /\ deletion = [s \in OcSessions |-> NoRun]

TuiIdle == tui = TuiStart

Init == TaskInit /\ ExIdle /\ BashIdle /\ TuiIdle

(* ------------------------------- actions ------------------------------- *)

Executing(t) == pc[t] \in {"get", "create", "prompt", "messages"}

FirstCall(sid) ==
  IF sid # NoSessionId
  THEN Call("session.get", sid, "", "", NoTools)
  ELSE Call("session.create", "", ParentSession, "", NoTools)

\* a launch behind a limiter of one slot: while another task executes, the
\* new one waits in a queue and makes no call
Launch_Limited(t, a, sid) ==
  /\ pc[t] = "idle"
  /\ \A u \in Tasks : u < t => pc[u] # "idle"
  /\ args' = [args EXCEPT ![t] = [subagent_type |-> a, session_id |-> sid]]
  /\ IF ~IsAllowedAgent(a)
     THEN /\ Return(t, ErrorReturn("Invalid agent type", a, NoSessionId))
          /\ pc' = [pc EXCEPT ![t] = "done"]
          /\ UNCHANGED calls
     ELSE IF \E u \in Tasks : Executing(u)
     THEN /\ pc' = [pc EXCEPT ![t] = "queued"]
          /\ UNCHANGED <<calls, outcomes>>
     ELSE /\ calls' = [calls EXCEPT ![t] = Append(@, FirstCall(sid))]
          /\ pc' = [pc EXCEPT ![t] = IF sid # NoSessionId THEN "get" ELSE "create"]
          /\ UNCHANGED outcomes
  /\ UNCHANGED <<sessionID, messages, exVars, bashVars, tuiVars>>

\* a launch that hands a task id back before its first call is answered
Launch_ReturnsAtOnce(t, a, sid) ==
  /\ pc[t] = "idle"
  /\ \A u \in Tasks : u < t => pc[u] # "idle"
  /\ args' = [args EXCEPT ![t] = [subagent_type |-> a, session_id |-> sid]]
  /\ IF ~IsAllowedAgent(a)
     THEN /\ Return(t, ErrorReturn("Invalid agent type", a, NoSessionId))
          /\ pc' = [pc EXCEPT ![t] = "done"]
          /\ UNCHANGED calls
     ELSE /\ calls' = [calls EXCEPT ![t] = Append(@, FirstCall(sid))]
          /\ pc' = [pc EXCEPT ![t] = IF sid # NoSessionId THEN "get" ELSE "create"]
          /\ Return(t, [kind |-> "task_id", what |-> "", detail |-> "", text |-> <<>>,
                        session_id |-> NoSessionId])
  /\ UNCHANGED <<sessionID, messages, exVars, bashVars, tuiVars>>

\* lines 22-57, to the first await: validation, then session.get or
\* session.create is called.  Invocations are numbered in the order made.
Launch(t, a, sid) ==
  /\ pc[t] = "idle"
  /\ \A u \in Tasks : u < t => pc[u] # "idle"
  /\ args' = [args EXCEPT ![t] = [subagent_type |-> a, session_id |-> sid]]
  /\ IF ~IsAllowedAgent(a)
     THEN /\ Return(t, ErrorReturn("Invalid agent type", a, NoSessionId))
          /\ pc' = [pc EXCEPT ![t] = "done"]
          /\ UNCHANGED calls
     ELSE IF sid # NoSessionId
     THEN /\ calls' = [calls EXCEPT ![t] = Append(@, Call("session.get", sid, "", "", NoTools))]
          /\ pc' = [pc EXCEPT ![t] = "get"]
          /\ UNCHANGED outcomes
     ELSE /\ calls' = [calls EXCEPT ![t] =
                         Append(@, Call("session.create", "", ParentSession, "", NoTools))]
          /\ pc' = [pc EXCEPT ![t] = "create"]
          /\ UNCHANGED outcomes
  /\ UNCHANGED <<sessionID, messages, exVars, bashVars, tuiVars>>

\* a failed lookup whose error is handed back without the return that ends
\* execute(): the task goes on to the prompt
GetReturn_NoStop(t, err) ==
  /\ pc[t] = "get"
  /\ IF err # NoError
     THEN Return(t, ErrorReturn("Failed to get existing session", err, NoSessionId))
     ELSE UNCHANGED outcomes
  /\ sessionID' = [sessionID EXCEPT ![t] = args[t].session_id]
  /\ calls' = [calls EXCEPT ![t] =
                 Append(AnswerLast(@, err), PromptCall(t, args[t].session_id))]
  /\ pc' = [pc EXCEPT ![t] = "prompt"]
  /\ UNCHANGED <<args, messages, exVars, bashVars, tuiVars>>

\* lines 36-40, 59-72: session.get is answered
GetReturn(t, err) ==
  /\ pc[t] = "get"
  /\ IF err # NoError
     THEN /\ Return(t, ErrorReturn("Failed to get existing session", err, NoSessionId))
          /\ calls' = [calls EXCEPT ![t] = AnswerLast(@, err)]
          /\ pc' = [pc EXCEPT ![t] = "done"]
          /\ UNCHANGED sessionID
     ELSE /\ sessionID' = [sessionID EXCEPT ![t] = args[t].session_id]
          /\ calls' = [calls EXCEPT ![t] =
                         Append(AnswerLast(@, err), PromptCall(t, args[t].session_id))]
          /\ pc' = [pc EXCEPT ![t] = "prompt"]
          /\ UNCHANGED outcomes
  /\ UNCHANGED <<args, messages, exVars, bashVars, tuiVars>>

\* sessionID kept outside execute(), one variable for every invocation
CreateReturn_SharedSession(t, err) ==
  /\ pc[t] = "create"
  /\ IF err # NoError
     THEN /\ Return(t, ErrorReturn("Failed to create session", err, NoSessionId))
          /\ calls' = [calls EXCEPT ![t] = AnswerLast(@, err)]
          /\ pc' = [pc EXCEPT ![t] = "done"]
          /\ UNCHANGED sessionID
     ELSE /\ sessionID' = [u \in Tasks |-> NewSessionId(t)]
          /\ calls' = [calls EXCEPT ![t] =
                         Append(AnswerLast(@, err), PromptCall(t, NewSessionId(t)))]
          /\ pc' = [pc EXCEPT ![t] = "prompt"]
          /\ UNCHANGED outcomes
  /\ UNCHANGED <<args, messages, exVars, bashVars, tuiVars>>

\* a create whose error is not looked at
CreateReturn_NoStop(t, err) ==
  /\ pc[t] = "create"
  /\ sessionID' = [sessionID EXCEPT ![t] = NewSessionId(t)]
  /\ calls' = [calls EXCEPT ![t] =
                 Append(AnswerLast(@, err), PromptCall(t, NewSessionId(t)))]
  /\ pc' = [pc EXCEPT ![t] = "prompt"]
  /\ UNCHANGED <<args, messages, outcomes, exVars, bashVars, tuiVars>>

\* lines 50-56, 59-72: session.create is answered
CreateReturn(t, err) ==
  /\ pc[t] = "create"
  /\ IF err # NoError
     THEN /\ Return(t, ErrorReturn("Failed to create session", err, NoSessionId))
          /\ calls' = [calls EXCEPT ![t] = AnswerLast(@, err)]
          /\ pc' = [pc EXCEPT ![t] = "done"]
          /\ UNCHANGED sessionID
     ELSE /\ sessionID' = [sessionID EXCEPT ![t] = NewSessionId(t)]
          /\ calls' = [calls EXCEPT ![t] =
                         Append(AnswerLast(@, err), PromptCall(t, NewSessionId(t)))]
          /\ pc' = [pc EXCEPT ![t] = "prompt"]
          /\ UNCHANGED outcomes
  /\ UNCHANGED <<args, messages, exVars, bashVars, tuiVars>>

\* lines 62-78: session.prompt is answered; its answer is not looked at, and
\* session.messages is called
PromptReturn(t, err) ==
  /\ pc[t] = "prompt"
  /\ calls' = [calls EXCEPT ![t] = Append(AnswerLast(@, err), MessagesCall(sessionID[t]))]
  /\ pc' = [pc EXCEPT ![t] = "messages"]
  /\ UNCHANGED <<args, sessionID, messages, outcomes, exVars, bashVars, tuiVars>>

NumFetches(t) == Cardinality({i \in DOMAIN calls[t] : calls[t][i].op = "session.messages"})

\* a poll loop: the first fetch is only remembered and the messages are
\* fetched again before anything is extracted
MessagesReturn_Poll(t, err, data) ==
  /\ pc[t] = "messages"
  /\ IF err # NoError
     THEN /\ calls' = [calls EXCEPT ![t] = AnswerLast(@, err)]
          /\ pc' = [pc EXCEPT ![t] = "done"]
          /\ Return(t, ErrorReturn("Failed to get messages", err, NoSessionId))
          /\ UNCHANGED messages
     ELSE IF NumFetches(t) < 2
     THEN /\ calls' = [calls EXCEPT ![t] = Append(AnswerLast(@, err), MessagesCall(sessionID[t]))]
          /\ messages' = [messages EXCEPT ![t] = data]
          /\ UNCHANGED <<pc, outcomes>>
     ELSE /\ calls' = [calls EXCEPT ![t] = AnswerLast(@, err)]
          /\ pc' = [pc EXCEPT ![t] = "done"]
          /\ messages' = [messages EXCEPT ![t] = data]
          /\ Return(t, ExtractOutput(data, sessionID[t]))
  /\ UNCHANGED <<args, sessionID, exVars, bashVars, tuiVars>>

\* a failed fetch that is only logged: execute() ends without a return value
MessagesReturn_Silent(t, err, data) ==
  /\ pc[t] = "messages"
  /\ calls' = [calls EXCEPT ![t] = AnswerLast(@, err)]
  /\ pc' = [pc EXCEPT ![t] = "done"]
  /\ IF err # NoError
     THEN UNCHANGED <<messages, outcomes>>
     ELSE /\ messages' = [messages EXCEPT ![t] = data]
          /\ Return(t, ExtractOutput(data, sessionID[t]))
  /\ UNCHANGED <<args, sessionID, exVars, bashVars, tuiVars>>

\* an answer of session.messages applied again to a task that has ended
MessagesReturn_Late(t, err, data) ==
  /\ pc[t] \in {"messages", "done"}
  /\ NumFetches(t) = 1
  /\ calls' = [calls EXCEPT ![t] = AnswerLast(@, err)]
  /\ pc' = [pc EXCEPT ![t] = "done"]
  /\ IF err # NoError
     THEN /\ Return(t, ErrorReturn("Failed to get messages", err, NoSessionId))
          /\ UNCHANGED messages
     ELSE /\ messages' = [messages EXCEPT ![t] = data]
          /\ Return(t, ExtractOutput(data, sessionID[t]))
  /\ UNCHANGED <<args, sessionID, exVars, bashVars, tuiVars>>

\* a failed fetch that is tried once more before the task fails
MessagesReturn_Retry(t, err, data) ==
  /\ pc[t] = "messages"
  /\ IF err # NoError /\ NumFetches(t) < 2
     THEN /\ calls' = [calls EXCEPT ![t] = Append(AnswerLast(@, err), MessagesCall(sessionID[t]))]
          /\ UNCHANGED <<pc, messages, outcomes>>
     ELSE /\ calls' = [calls EXCEPT ![t] = AnswerLast(@, err)]
          /\ pc' = [pc EXCEPT ![t] = "done"]
          /\ IF err # NoError
             THEN /\ Return(t, ErrorReturn("Failed to get messages", err, NoSessionId))
                  /\ UNCHANGED messages
             ELSE /\ messages' = [messages EXCEPT ![t] = data]
                  /\ Return(t, ExtractOutput(data, sessionID[t]))
  /\ UNCHANGED <<args, sessionID, exVars, bashVars, tuiVars>>

\* lines 80-108: session.messages is answered
MessagesReturn(t, err, data) ==
  /\ pc[t] = "messages"
  /\ calls' = [calls EXCEPT ![t] = AnswerLast(@, err)]
  /\ pc' = [pc EXCEPT ![t] = "done"]
  /\ IF err # NoError
     THEN /\ Return(t, ErrorReturn("Failed to get messages", err, NoSessionId))
          /\ UNCHANGED messages
     ELSE /\ messages' = [messages EXCEPT ![t] = data]
          /\ Return(t, ExtractOutput(data, sessionID[t]))
  /\ UNCHANGED <<args, sessionID, exVars, bashVars, tuiVars>>

AnswerInputs == {NoError} \cup ErrorValues

Next ==
  \/ \E t \in Tasks, a \in AgentInputs, sid \in SessionIdInputs : Launch(t, a, sid)
  \/ \E t \in Tasks, err \in AnswerInputs : GetReturn(t, err)
  \/ \E t \in Tasks, err \in AnswerInputs : CreateReturn(t, err)
  \/ \E t \in Tasks, err \in AnswerInputs : PromptReturn(t, err)
  \/ \E t \in Tasks, err \in AnswerInputs, data \in FetchSamples : MessagesReturn(t, err, data)

Spec == Init /\ [][Next]_vars

(* ---------- extraction alone, over every bounded history --------------- *)

ExInit ==
  /\ TaskInit
  /\ exIn \in Histories
  /\ exOut = <<>>
  /\ exPc = "fetched"
  /\ BashIdle
  /\ TuiIdle

\* lines 85-108 on the fetched history
ApplyExtract ==
  /\ exPc = "fetched"
  /\ exOut' = <<ExtractOutput(exIn, "ses_old")>>
  /\ exPc' = "returned"
  /\ UNCHANGED <<exIn, taskVars, bashVars, tuiVars>>

ExNext == ApplyExtract

SpecExtract == ExInit /\ [][ExNext]_vars

(* ------------- the interactive-bash hook's tool.execute.after ---------- *)

\* lines 69-115
ToolExecuteAfter(tool, sid, tmuxCommand) ==
  /\ lastCall' = [tool |-> tool, sessionID |-> sid, tmux_command |-> tmuxCommand]
  /\ IF toolLower[tool] # "interactive_bash"
       THEN UNCHANGED <<sessionStates, persisted, reminder, deletion>>
       ELSE LET state == getOrCreateState(sessionStates, persisted, sid)
                hasNewSession == CommandFacts[tmuxCommand].hasNewSession
                hasKillSession == CommandFacts[tmuxCommand].hasKillSession
                hasKillServer == CommandFacts[tmuxCommand].hasKillServer
                sessionName == CommandFacts[tmuxCommand].sessionName
                isOmo == CommandFacts[tmuxCommand].isOmoSession
                tmuxSessions ==
                  IF hasNewSession /\ isOmo
                    THEN SetAdd(state.tmuxSessions, sessionName)
                  ELSE IF hasKillSession /\ isOmo
                    THEN SetDelete(state.tmuxSessions, sessionName)
                  ELSE IF hasKillServer
                    THEN EmptySet
                  ELSE state.tmuxSessions
                stateChanged ==
                  \/ hasNewSession /\ isOmo
                  \/ hasKillSession /\ isOmo
                  \/ hasKillServer
                isSessionOperation == hasNewSession \/ hasKillSession \/ hasKillServer
            IN /\ sessionStates' = [sessionStates EXCEPT ![sid] = State(tmuxSessions)]
               /\ persisted' =
                    IF stateChanged
                      THEN saveInteractiveBashSessionState(persisted, sid, tmuxSessions)
                      ELSE persisted
               /\ reminder' =
                    IF isSessionOperation
                      THEN buildSessionReminderMessage(tmuxSessions)
                      ELSE NoReminder
               /\ deletion' =
                    [deletion EXCEPT
                       ![sid].pos = IteratorAfter(state.tmuxSessions, tmuxSessions, @)]
  /\ UNCHANGED <<lastEvent, taskVars, exVars, tuiVars>>

BashNext ==
  \E tool \in ToolInputs, sid \in OcSessions, cmd \in TmuxCommands :
    ToolExecuteAfter(tool, sid, cmd)

SpecBash == Init /\ [][BashNext]_vars

(* --------------------- the interactive-bash hook's event --------------- *)

\* lines 126-129 once killAllTrackedSessions has left run: when the loop is
\* through, the Map entry and the stored state are removed
AfterKills(sid, state, run) ==
  /\ deletion' = [deletion EXCEPT ![sid] = run]
  /\ IF run.pc = "done"
       THEN /\ sessionStates' = [sessionStates EXCEPT ![sid] = NoState]
            /\ persisted' = clearInteractiveBashSessionState(persisted, sid)
       ELSE /\ sessionStates' = [sessionStates EXCEPT ![sid] = state]
            /\ UNCHANGED persisted

\* lines 117-131, up to the first await: one session.deleted is handled at a
\* time for a session
EventHandler(event, spawns) ==
  /\ lastEvent' = event
  /\ IF event.type = "session.deleted" /\ event.id # ""
       THEN /\ deletion[event.id].pc # "awaiting"
            /\ LET state == getOrCreateState(sessionStates, persisted, event.id)
               IN AfterKills(event.id, state,
                             killAllTrackedSessions(state.tmuxSessions, NoRun, spawns))
       ELSE UNCHANGED <<sessionStates, persisted, deletion>>
  /\ UNCHANGED <<lastCall, reminder, taskVars, exVars, tuiVars>>

\* line 63: the awaited tmux has exited with the given code, and the loop
\* goes on
ProcExited(sid, code, spawns) ==
  /\ deletion[sid].pc = "awaiting"
  /\ LET state == sessionStates[sid]
         run == [deletion[sid] EXCEPT
                   !.failed = IF code = 0 THEN @ ELSE @ \cup {deletion[sid].awaited}]
     IN AfterKills(sid, state, killAllTrackedSessions(state.tmuxSessions, run, spawns))
  /\ UNCHANGED <<lastCall, lastEvent, reminder, taskVars, exVars, tuiVars>>

\* the events the hook gets
Events ==
  {Event("session.deleted", id) : id \in OcSessions \cup {""}}
    \cup {Event("session.idle", id) : id \in OcSessions}

\* the commands of the calls that run beside the handler, all of one session
EventCommands ==
  { "new-session -d -s omo-a", "new-session -d -s omo-b",
    "kill-session -t omo-a", "kill-server" }

EventNext ==
  \/ \E cmd \in EventCommands : ToolExecuteAfter("interactive_bash", "ses_1", cmd)
  \/ \E event \in Events, spawns \in BOOLEAN : EventHandler(event, spawns)
  \/ \E sid \in OcSessions, code \in {0, 1}, spawns \in BOOLEAN :
       ProcExited(sid, code, spawns)

SpecEvent == Init /\ [][EventNext]_vars

(* ------------------------ the TUI explorer's events --------------------- *)

otherVars == <<taskVars, exVars, bashVars>>

\* the explorer goes to u, within the bounds
Step(u) ==
  /\ Len(u.promptFiles) <= MaxPromptFiles
  /\ Cardinality(u.writing \cup u.reselect) <= MaxReverts
  /\ tui' = u
  /\ UNCHANGED otherVars

\* a key reaches the handlers registered with useKeyboard
KeyPress(evt, order, applies) == Step(Dispatch(tui, evt, order, applies))

\* part_001 106-116: a click on the strip shown while the explorer is hidden
MouseOpen ==
  /\ ~tui.visible
  /\ Step(Settle(tui, handleOpen(tui)))

\* part_001 120-125: a click on the sidebar
MouseFocus ==
  /\ tui.visible
  /\ Step(Settle(tui, handleFocus(tui)))

\* part_001 130-132: a click on the close mark, a box inside the sidebar's
\* box: its handler runs, then the sidebar's (the event is not stopped, as
\* file-preview.tsx 217-224 stops it)
MouseClose ==
  /\ tui.visible
  /\ Step(Settle(tui, handleFocus(handleClose(tui))))

\* part_001 138-156: a click on a tab, inside the sidebar's box
MouseTab(t) ==
  /\ tui.visible
  /\ Step(Settle(tui, handleFocus(setFocusIndex(setTab(tui, t), 0))))

\* part_001 185-195: the resize bar beside the sidebar
MouseResizeDown ==
  /\ tui.visible /\ ~tui.resizing
  /\ Step([tui EXCEPT !.resizing = TRUE])

MouseResizeUp ==
  /\ tui.visible /\ tui.resizing
  /\ Step([tui EXCEPT !.resizing = FALSE])

MouseResizeMove(right) ==
  /\ tui.visible /\ tui.resizing
  /\ Step(adjustSidebarWidth(tui, IF right THEN 1 ELSE -1))

\* file-tree.tsx 182-184: a click on a row of the tree, inside the sidebar's box
FileTreeRowClick(index, fast) ==
  /\ MountedList(tui) = "explorer"
  /\ HasIndex(flatList(tui), index)
  /\ Step(Settle(tui, handleFocus(FileTreeClick(tui, index, fast))))

\* file-tree.tsx 171-174: the timer of a click on a file runs out
PendingSelectionFires ==
  /\ tui.pendingSelection # NoSelection
  /\ Step(Settle(tui, [setSelected(tui, tui.pendingSelection)
                         EXCEPT !.pendingSelection = NoSelection]))

\* git-changes.tsx 65-68: a click on a row of the changes, inside the sidebar's box
GitChangesRowClick(index) ==
  /\ MountedList(tui) = "changes"
  /\ HasIndex(tui.sessionChanges, index)
  /\ Step(Settle(tui, handleFocus(GitChangesClick(tui, index))))

\* file-preview.tsx 167-169, 215-221: a click on the preview's close mark
PreviewClose ==
  /\ tui.selected.type = "file"
  /\ Step(Settle(tui, setSelected(tui, NoSelection)))

\* file-preview.tsx 181-191: the resize bar beside the preview
PreviewResizeDown ==
  /\ tui.selected.type = "file" /\ ~tui.previewResizing
  /\ Step([tui EXCEPT !.previewResizing = TRUE])

PreviewResizeUp ==
  /\ tui.selected.type = "file" /\ tui.previewResizing
  /\ Step([tui EXCEPT !.previewResizing = FALSE])

PreviewResizeMove(left) ==
  /\ tui.selected.type = "file" /\ tui.previewResizing
  /\ Step(adjustPreviewWidth(tui, IF left THEN 1 ELSE -1))

\* a call of setSidebarWidth or setPreviewWidth with any width
SetWidth(preview, width) ==
  Step(IF preview THEN setPreviewWidth(tui, width) ELSE setSidebarWidth(tui, width))

\* file-tree.tsx 29-32: the listing of the root arrives
RootLoaded ==
  /\ MountedList(tui) = "explorer" /\ ~tui.rootLoaded
  /\ Step(Settle(tui, [tui EXCEPT !.rootLoaded = TRUE]))

\* file-tree.tsx 34-44: the listings of the expanded directories arrive
DirsLoaded ==
  /\ MountedList(tui) = "explorer" /\ tui.loadedDirs # tui.expanded
  /\ Step(Settle(tui, [tui EXCEPT !.loadedDirs = tui.expanded]))

\* part_003 95-99: the session's diffs change
ChangesUpdated(list) ==
  /\ list # tui.sessionChanges
  /\ Step(Settle(tui, [tui EXCEPT !.sessionChanges = list]))

\* part_003 101-112: the read of the selected file arrives; until then, and
\* while nothing or a directory is selected, the resource keeps its value
PreviewLoaded(hunks) ==
  /\ tui.selected.type = "file"
  /\ tui.content # Content(tui.selected.path, hunks)
  /\ Step(Settle(tui, [tui EXCEPT !.content = Content(tui.selected.path, hunks)]))

\* file-preview.tsx 80-82: a write has returned
WriteReturned(sel) ==
  /\ sel \in tui.writing
  /\ Step(Settle(tui, [setSelected(tui, NoSelection)
                         EXCEPT !.writing = @ \ {sel}, !.reselect = @ \cup {sel}]))

\* file-preview.tsx 82: the timer set after a write runs out
ReselectTimer(sel) ==
  /\ sel \in tui.reselect
  /\ Step(Settle(tui, [setSelected(tui, sel) EXCEPT !.reselect = @ \ {sel}]))

\* the keys of the sidebar, of the lists and of Escape
NavKeys ==
  { Ctrl("e"), Ctrl("b"), CtrlShift("e"), Key("escape"), Key("i"), Key("1"), Key("2"),
    Key("tab"), Key("up"), Key("down"), Key("return"), Key("left"), Key("right"),
    Ctrl("p"), Ctrl("n"), Key("p") }

\* the keys that resize, and those that show the explorer and select a change
WidthKeys ==
  { Key("["), Key("]"), Key("{"), Key("}"), Ctrl("b"), Key("2"), Key("return") }

\* the keys of the preview, and those that lead to it
PreviewKeys ==
  { Ctrl("b"), Key("2"), Key("up"), Key("down"), Key("return"), Key("escape"),
    Key("j"), Key("k"), Key("r") }

\* widths asked of the setters
WidthInputs == {0, 19, 20, 50, 80, 81, 200}

\* the diffs a session may have
ChangeLists ==
  { <<>>,
    <<Change("README.md", 1)>>,
    <<Change("README.md", MaxHunks), Change("src/a.ts", 0)>> }

Indexes == 0..2

TuiNext ==
  \/ \E evt \in NavKeys, order \in HandlerOrders : KeyPress(evt, order, TRUE)
  \/ MouseOpen
  \/ MouseFocus
  \/ MouseClose
  \/ \E t \in {"explorer", "changes"} : MouseTab(t)
  \/ \E i \in Indexes, fast \in BOOLEAN : FileTreeRowClick(i, fast)
  \/ PendingSelectionFires
  \/ \E i \in Indexes : GitChangesRowClick(i)
  \/ PreviewClose
  \/ RootLoaded
  \/ DirsLoaded
  \/ \E list \in ChangeLists : ChangesUpdated(list)

SpecTui == Init /\ [][TuiNext]_vars

WidthNext ==
  \/ \E evt \in WidthKeys, order \in HandlerOrders : KeyPress(evt, order, TRUE)
  \/ ChangesUpdated(<<Change("README.md", 1)>>)
  \/ MouseResizeDown
  \/ MouseResizeUp
  \/ \E right \in BOOLEAN : MouseResizeMove(right)
  \/ PreviewResizeDown
  \/ PreviewResizeUp
  \/ \E left \in BOOLEAN : PreviewResizeMove(left)
  \/ \E preview \in BOOLEAN, width \in WidthInputs : SetWidth(preview, width)

SpecWidth == Init /\ [][WidthNext]_vars

PreviewNext ==
  \/ \E evt \in PreviewKeys, order \in HandlerOrders : KeyPress(evt, order, TRUE)
  \/ \E order \in HandlerOrders : KeyPress(Key("r"), order, FALSE)
  \/ \E list \in ChangeLists : ChangesUpdated(list)
  \/ \E hunks \in 0..MaxHunks : PreviewLoaded(hunks)
  \/ \E sel \in tui.writing : WriteReturned(sel)
  \/ \E sel \in tui.reselect : ReselectTimer(sel)

SpecPreview == Init /\ [][PreviewNext]_vars

(* ------------------------------- claims -------------------------------- *)

Launched(t) == pc[t] # "idle"

CallsOf(t, op) == {i \in DOMAIN calls[t] : calls[t][i].op = op}

\* C1: an invocation whose subagent_type is not one of the allowed agents
\* ends at once with the validation error and makes no collaborator call:
\* no session is looked up, created, prompted or read for it.
C1_InvalidAgentRejected ==
  \A t \in Tasks :
    (Launched(t) /\ args[t].subagent_type \notin ALLOWED_AGENTS) =>
      /\ pc[t] = "done"
      /\ calls[t] = <<>>
      /\ sessionID[t] = NoSessionId
      /\ outcomes[t] =
           <<ErrorReturn("Invalid agent type", args[t].subagent_type, NoSessionId)>>

\* C1's case: an invocation with an unknown agent has ended while another,
\* valid one is making its calls
C1_Witness ==
  \E t, u \in Tasks :
    /\ Launched(t) /\ args[t].subagent_type = "unknown" /\ pc[t] = "done"
    /\ calls[u] # <<>>

\* C2: every session.prompt call carries tools that disable both task and
\* omo_task, whichever allowed agent is asked for and whether the session was
\* created or continued through session_id.
C2_PromptDisablesDelegation ==
  \A t \in Tasks : \A i \in CallsOf(t, "session.prompt") :
    /\ calls[t][i].tools.task = FALSE
    /\ calls[t][i].tools.omo_task = FALSE

\* C2's case: a prompt into a continued session for one agent and a prompt
\* into a created session for the other
C2_Witness ==
  \E t, u \in Tasks :
    /\ \E i \in CallsOf(t, "session.prompt") :
         calls[t][i].id = "ses_old" /\ calls[t][i].agent = "explore"
    /\ \E i \in CallsOf(u, "session.prompt") :
         calls[u][i].id = NewSessionId(u) /\ calls[u][i].agent = "librarian"

TextIdx(m) == {j \in DOMAIN m.parts : m.parts[j].type = "text"}

\* the k-th text part of m, counted in the order of m.parts
KthText(m, k) ==
  LET j == CHOOSE x \in TextIdx(m) : Cardinality({y \in TextIdx(m) : y <= x}) = k
  IN  m.parts[j].text

\* r is the texts of m's text parts, in their order, with "\n" between them
IsTextOf(r, m) ==
  LET n == Cardinality(TextIdx(m))
  IN  /\ Len(r) = IF n = 0 THEN 0 ELSE 2 * n - 1
      /\ \A k \in 1..n : r[2 * k - 1] = KthText(m, k)
      /\ \A k \in 1..(n - 1) : r[2 * k] = "\n"

\* C3: the text of an output comes from exactly one fetched message, an
\* assistant message whose creation time no other assistant message exceeds;
\* it is that message's text parts in their order (joined by newlines), and no
\* other message and no other part contributes.
C3_LatestAssistantText ==
  (exPc = "returned" /\ exOut[1].kind = "output") =>
    \E i \in DOMAIN exIn :
      /\ exIn[i].role = "assistant"
      /\ \A j \in DOMAIN exIn :
           exIn[j].role = "assistant" => Created(exIn[j]) <= Created(exIn[i])
      /\ IsTextOf(exOut[1].text, exIn[i])

\* C3's case: the newest assistant message stands before an older one, and
\* its two texts are the output
C3_Witness ==
  /\ exPc = "returned"
  /\ Len(exIn) = 2
  /\ exIn[1].role = "assistant" /\ exIn[2].role = "assistant"
  /\ Created(exIn[1]) > Created(exIn[2])
  /\ TextIdx(exIn[2]) # {}
  /\ exOut[1].text = <<TextAt(1, 1), "\n", TextAt(1, 2)>>

Fetched(t) == \E i \in CallsOf(t, "session.messages") : calls[t][i].state = "ok"

\* C4: when the fetched history holds no assistant message, the invocation
\* returns the error "No assistant response found", never an output.
C4_NoAssistantIsError ==
  \A t \in Tasks :
    (Fetched(t) /\ \A i \in DOMAIN messages[t] : messages[t][i].role # "assistant") =>
      /\ Len(outcomes[t]) = 1
      /\ outcomes[t][1].kind = "Error"
      /\ outcomes[t][1].what = "No assistant response found"

\* C4's case: a fetch answered with a user message alone, and one answered
\* with no message at all
C4_Witness ==
  \E t, u \in Tasks :
    /\ Fetched(t) /\ Len(messages[t]) = 1 /\ messages[t][1].role = "user"
    /\ Fetched(u) /\ messages[u] = <<>>

AllowedLaunch(t) == Launched(t) /\ args[t].subagent_type \in ALLOWED_AGENTS

LastPending(t) == calls[t] # <<>> /\ calls[t][Len(calls[t])].state = "pending"

\* C5, as claimed: the tasks executing at one time (admitted, running or
\* stable) never exceed the maximum, which is 1 where nothing is configured.
C5_Original == Cardinality({t \in Tasks : Executing(t)}) <= 1

\* C5, amended: the tool has no limit and no queue. Every invocation with an
\* allowed agent executes from the moment it is made until it returns: its
\* first collaborator call is made in the invocation itself, whatever the
\* number of tasks already executing.
C5_NoAdmissionLimit ==
  \A t \in Tasks :
    (AllowedLaunch(t) /\ outcomes[t] = <<>>) => (Executing(t) /\ LastPending(t))

\* C5's case: every task is executing at the same time
C5_Witness ==
  /\ \A t \in Tasks : Executing(t) /\ LastPending(t)
  /\ Cardinality({t \in Tasks : Executing(t)}) >= 2

\* C6, as claimed: an output is extracted only once the fetched output was
\* seen unchanged over consecutive polls, so never from the first fetch.
C6_Original ==
  \A t \in Tasks :
    (Fetched(t) /\ outcomes[t] # <<>>) => NumFetches(t) >= 2

\* C6, amended: a task fetches its messages once, after the prompt call was
\* answered, and its outcome is extracted from that one fetch as soon as it is
\* answered; the tool does not poll, counts no unchanged polls and has no
\* threshold.
C6_SingleFetch ==
  \A t \in Tasks :
    /\ NumFetches(t) <= 1
    /\ \A i \in CallsOf(t, "session.messages") :
         i > 1 /\ calls[t][i - 1].op = "session.prompt" /\ calls[t][i - 1].state # "pending"
    /\ Fetched(t) => (Len(outcomes[t]) = 1 /\ pc[t] = "done")

\* C6's case: an output extracted from the only fetch
C6_Witness ==
  \E t \in Tasks :
    Fetched(t) /\ NumFetches(t) = 1 /\ outcomes[t] # <<>> /\ outcomes[t][1].kind = "output"

\* C7, as claimed: launch returns without waiting on a collaborator call, so
\* an invocation that was made has already handed its caller a value.
C7_Original == \A t \in Tasks : Launched(t) => outcomes[t] # <<>>

\* C7, amended: execute() returns only after every collaborator call it makes
\* was answered: with an allowed agent the caller gets the value after the
\* session was looked up or created and, unless that failed, after the prompt
\* and the messages call were answered; nothing of the task runs after the
\* return.
C7_ReturnsAfterCalls ==
  \A t \in Tasks :
    outcomes[t] # <<>> =>
      /\ pc[t] = "done"
      /\ \A i \in DOMAIN calls[t] : calls[t][i].state # "pending"
      /\ AllowedLaunch(t) => calls[t] # <<>>
      /\ (AllowedLaunch(t) /\ calls[t][1].state = "ok") => Len(calls[t]) = 3

\* C7's case: a task has returned after its three calls while another still
\* waits for an answer
C7_Witness ==
  \E t, u \in Tasks :
    /\ outcomes[t] # <<>> /\ Len(calls[t]) = 3
    /\ LastPending(u) /\ outcomes[u] = <<>>

\* C8: when a collaborator call of a task failed (the lookup or creation of
\* the session, the prompt, the fetch), the task ends failed: the value it
\* returns is an error, and after a failed prompt no output is made from the
\* messages the session holds.
C8_FailureFails ==
  \A t \in Tasks :
    (pc[t] = "done" /\ \E i \in DOMAIN calls[t] : calls[t][i].state = "error") =>
      /\ Len(outcomes[t]) = 1
      /\ outcomes[t][1].kind = "Error"

\* C9: an invocation with an allowed agent hands its caller exactly one
\* value, the output or an error: none while it executes, one once it ended,
\* never a second.
C9_ExactlyOneOutcome ==
  \A t \in Tasks :
    /\ Len(outcomes[t]) <= 1
    /\ (AllowedLaunch(t) /\ pc[t] = "done") =>
         (Len(outcomes[t]) = 1 /\ outcomes[t][1].kind \in {"Error", "output"})
    /\ (AllowedLaunch(t) /\ pc[t] # "done") => outcomes[t] = <<>>

\* C9's case: one task ended with an output, another with the error of a
\* failed fetch
C9_Witness ==
  \E t, u \in Tasks :
    /\ pc[t] = "done" /\ Len(outcomes[t]) = 1 /\ outcomes[t][1].kind = "output"
    /\ pc[u] = "done" /\ Len(outcomes[u]) = 1
    /\ outcomes[u][1].what = "Failed to get messages"

TaskState(t) == <<pc[t], args[t], sessionID[t], calls[t], messages[t], outcomes[t]>>

\* C11: once execute() has returned, the task is final: no later answer or
\* step of any invocation changes its status, its outcome, its session, its
\* messages or its calls.
C11_TerminalIsFinal ==
  [][\A t \in Tasks : pc[t] = "done" => TaskState(t)' = TaskState(t)]_vars

\* C11's case: one task has ended while another still has steps to take
C11_Witness ==
  \E t, u \in Tasks :
    /\ pc[t] = "done" /\ Fetched(t)
    /\ pc[u] = "messages"

\* C12: an output never carries an empty text: a latest assistant message
\* without text parts makes the task fail.
C12_NoEmptyOutput ==
  \A t \in Tasks : \A k \in DOMAIN outcomes[t] :
    outcomes[t][k].kind = "output" => outcomes[t][k].text # <<>>

CallIds(t, op) == {calls[t][i].id : i \in CallsOf(t, op)}

\* C13: without session_id the invocation creates one session, whose parent
\* is the session that invoked the tool, and looks none up; with session_id
\* it creates none and, once the lookup succeeded, prompts that session,
\* fetches the messages of that session and names it in task_metadata.
C13_SessionUse ==
  \A t \in Tasks :
    AllowedLaunch(t) =>
      IF args[t].session_id = NoSessionId
      THEN /\ Cardinality(CallsOf(t, "session.create")) = 1
           /\ CallsOf(t, "session.get") = {}
           /\ \A i \in CallsOf(t, "session.create") : calls[t][i].parentID = ParentSession
      ELSE /\ CallsOf(t, "session.create") = {}
           /\ CallIds(t, "session.get") = {args[t].session_id}
           /\ calls[t][1].state = "ok" =>
                /\ CallIds(t, "session.prompt") = {args[t].session_id}
                /\ CallIds(t, "session.messages") \subseteq {args[t].session_id}
                /\ Fetched(t) => outcomes[t][1].session_id = args[t].session_id

\* C13's case: one task has continued ses_old to its output, another has
\* created its session
C13_Witness ==
  \E t, u \in Tasks :
    /\ args[t].session_id = "ses_old" /\ Fetched(t) /\ outcomes[t][1].kind = "output"
    /\ args[u].session_id = NoSessionId /\ sessionID[u] = NewSessionId(u)
    /\ CallIds(u, "session.messages") = {NewSessionId(u)}

HasAssistant(ms) == \E i \in DOMAIN ms : ms[i].role = "assistant"

FailedCall(t) == \E i \in DOMAIN calls[t] : calls[t][i].state = "error"

C15_Original ==
  \A t \in Tasks :
    (outcomes[t] # <<>> /\ outcomes[t][1].what = "Failed to get messages") =>
      NumFetches(t) >= 2

\* C15, amended: no call is retried. A task makes each of its calls at most
\* once, and the first error answered by session.get, session.create or
\* session.messages ends it at once with that error.
C15_NoRetry ==
  \A t \in Tasks :
    /\ \A op \in {"session.get", "session.create", "session.prompt", "session.messages"} :
         Cardinality(CallsOf(t, op)) <= 1
    /\ \A i \in DOMAIN calls[t] :
         (calls[t][i].state = "error" /\ calls[t][i].op # "session.prompt") =>
           /\ i = Len(calls[t])
           /\ pc[t] = "done"
           /\ Len(outcomes[t]) = 1
           /\ outcomes[t][1].kind = "Error"
           /\ outcomes[t][1].detail = calls[t][i].error

\* C15's case: a task failed on its only fetch
C15_Witness ==
  \E t \in Tasks :
    /\ outcomes[t] # <<>> /\ outcomes[t][1].what = "Failed to get messages"
    /\ NumFetches(t) = 1

\* C18: tasks share nothing: a step of one invocation, an error included,
\* leaves the status, the session, the calls, the messages and the outcome of
\* every other invocation as they were.
C18_TasksIndependent ==
  [][\A t, u \in Tasks :
       (t # u /\ TaskState(u)' # TaskState(u)) => TaskState(t)' = TaskState(t)]_vars

\* C18's case: one task failed on a call while another, made at the same
\* time, ended with its output
C18_Witness ==
  \E t, u \in Tasks :
    /\ pc[t] = "done" /\ FailedCall(t) /\ outcomes[t][1].kind = "Error"
    /\ pc[u] = "done" /\ ~FailedCall(u) /\ outcomes[u][1].kind = "output"

\* C21: within one task the calls come in a fixed order: the session is
\* looked up or created first, the prompt is sent only after that call
\* succeeded, the messages are fetched only after the prompt call has
\* returned; when establishing the session fails, no prompt is sent and no
\* messages are fetched.
C21_CallOrder ==
  \A t \in Tasks :
    LET cs == calls[t]
    IN /\ \A i \in DOMAIN cs :
            /\ cs[i].op \in {"session.get", "session.create"} <=> i = 1
            /\ cs[i].op = "session.prompt" => i = 2 /\ cs[1].state = "ok"
            /\ cs[i].op = "session.messages" =>
                 i = 3 /\ cs[2].op = "session.prompt" /\ cs[2].state # "pending"
       /\ (cs # <<>> /\ cs[1].state = "error") => Len(cs) = 1 /\ pc[t] = "done"

\* C21's case: one task went through its three calls in order, another
\* stopped at a session it could not establish
C21_Witness ==
  \E t, u \in Tasks :
    /\ Len(calls[t]) = 3 /\ pc[t] = "done"
    /\ Len(calls[u]) = 1 /\ calls[u][1].state = "error" /\ pc[u] = "done"

\* the tracked set of an opencode session, as the Map holds it
Tracked(sid) == sessionStates[sid].tmuxSessions

\* the last call went through the hook as an interactive_bash call
HookRan == lastCall # NoCall /\ toolLower[lastCall.tool] = "interactive_bash"

\* the word a command gives after its flag, "" when it has no such flag
FlagValue(tmuxCommand, flag) ==
  LET at == {i \in 1..Len(tmuxCommand) :
               /\ i + 2 <= Len(tmuxCommand)
               /\ SubSeq(tmuxCommand, i, i + 1) = flag
               /\ IsSpace(CharAt(tmuxCommand, i + 2))
               /\ SkipSpaces(tmuxCommand, i + 2) <= Len(tmuxCommand)}
      first == CHOOSE i \in at : \A k \in at : i <= k
      from == SkipSpaces(tmuxCommand, first + 2)
  IN IF at = {} THEN ""
     ELSE SubSeq(tmuxCommand, from, WordEnd(tmuxCommand, from))

\* what each command of the inputs asks tmux to do
CommandMeaning ==
  [tmuxCommand \in TmuxCommands |->
     [creates |-> IF StartsWith(tmuxCommand, "new-session")
                    THEN FlagValue(tmuxCommand, "-s") ELSE "",
      kills |-> IF StartsWith(tmuxCommand, "kill-session")
                  THEN FlagValue(tmuxCommand, "-t") ELSE "",
      killsServer |-> StartsWith(tmuxCommand, "kill-server")]]

\* C19: after any sequence of interactive_bash calls, every name in a tracked
\* set, in the Map and in the storage, starts with omo-: a new-session whose
\* name lacks the prefix, or that names no session, adds nothing.
C19_OnlyOmoTracked ==
  \A sid \in OcSessions :
    /\ \A i \in DOMAIN Tracked(sid) : StartsWith(Tracked(sid)[i], "omo-")
    /\ \A i \in DOMAIN persisted[sid].tmuxSessions :
         StartsWith(persisted[sid].tmuxSessions[i], "omo-")
    /\ (HookRan /\ lastCall.sessionID = sid
          /\ CommandMeaning[lastCall.tmux_command].creates # ""
          /\ ~StartsWith(CommandMeaning[lastCall.tmux_command].creates, "omo-")) =>
         ~SetHas(Tracked(sid), CommandMeaning[lastCall.tmux_command].creates)

\* C19's case: a session that tracks omo-a has just made a new-session call
\* whose name lacks the prefix, while another session's set is empty
C19_Witness ==
  /\ HookRan
  /\ lastCall.tmux_command = "new-session -d -s dev"
  /\ Tracked(lastCall.sessionID) = <<"omo-a">>
  /\ \E sid \in OcSessions :
       sid # lastCall.sessionID /\ sessionStates[sid] = State(EmptySet)

\* C20: after an interactive_bash call, a command that creates an omo-
\* session has its name in the caller's tracked set, a command that kills an
\* omo- session has its name out of it, and kill-server leaves it empty.
C20_LifecycleTracked ==
  HookRan =>
    LET does == CommandMeaning[lastCall.tmux_command]
        tracked == Tracked(lastCall.sessionID)
    IN /\ StartsWith(does.creates, "omo-") => SetHas(tracked, does.creates)
       /\ StartsWith(does.kills, "omo-") => ~SetHas(tracked, does.kills)
       /\ does.killsServer => tracked = EmptySet

\* C22: in every state the explorer reaches, whatever the order of the
\* handlers, Ctrl+E pressed while the explorer is visible hides it, clears
\* the selection and removes focus, pressed while it is hidden shows and
\* focuses it, and Ctrl+B leaves it visible and focused, with or without focus before.
C22_ToggleKeys ==
  \A order \in HandlerOrders :
    LET e == Dispatch(tui, Ctrl("e"), order, TRUE)
        b == Dispatch(tui, Ctrl("b"), order, TRUE)
    IN /\ tui.visible => ~e.visible /\ e.selected = NoSelection /\ ~e.focused
       /\ ~tui.visible => e.visible /\ e.focused
       /\ b.visible /\ b.focused

\* C22's case: the explorer was shown and then hidden by Ctrl+E, which is
\* the one way to hide it that leaves it without focus and the prompt blurred
C22_Witness ==
  /\ ~tui.visible /\ ~tui.focused /\ ~tui.promptFocused
  /\ tui.selected = NoSelection /\ tui.promptFiles # <<>>

\* the width an adjustment by delta must leave
Bounded(width, delta) ==
  IF width + delta > 80 THEN 80 ELSE IF width + delta < 20 THEN 20 ELSE width + delta

\* C23: after any sequence of width calls, by the keys [ ] { } in steps of 5
\* and by the mouse in steps of 1, both stored widths are within [20, 80],
\* and an adjustment past a bound leaves the width exactly at that bound.
C23_WidthsBounded ==
  /\ 20 <= tui.sidebarWidth /\ tui.sidebarWidth <= 80
  /\ 20 <= tui.previewWidth /\ tui.previewWidth <= 80
  /\ \A delta \in {-5, -1, 1, 5} :
       /\ adjustSidebarWidth(tui, delta).sidebarWidth = Bounded(tui.sidebarWidth, delta)
       /\ adjustPreviewWidth(tui, delta).previewWidth = Bounded(tui.previewWidth, delta)

\* C23's case: a drag of the sidebar's bar is under way with the sidebar at
\* its upper bound, and the preview has been narrowed to within a step of
\* its lower bound
C23_Witness ==
  /\ tui.resizing /\ tui.sidebarWidth = 80
  /\ tui.previewWidth = 22

\* C24: while a file with a diff is previewed the hunk index is within
\* [0, hunkCount-1], whatever keys were pressed and however the diff changed;
\* a step that changes the selection leaves the index at 0; and a write that
\* the revert key makes undoes a hunk that the patch had when it was pressed
C24_HunkIndexInRange ==
  [][ /\ tui'.selected # tui.selected => tui'.hunkIndex = 0
      /\ tui'.selected.type = "file" /\ hasDiff(tui')
           => 0 <= tui'.hunkIndex /\ tui'.hunkIndex <= hunkCount(tui') - 1
      /\ tui'.written # tui.written
           => 0 <= tui'.written.hunk /\ tui'.written.hunk <= hunkCount(tui) - 1
    ]_vars

\* the last hunk of a diff of MaxHunks hunks is the one chosen
C24_Witness ==
  /\ tui.visible /\ tui.focused /\ tui.selected.type = "file"
  /\ hunkCount(tui) = MaxHunks
  /\ tui.hunkIndex = MaxHunks - 1

\* C25: a revert writes, to the selected file, that file's own current text
\* with a hunk of that file's own patch undone
C25_RevertWritesSelection ==
  tui.written # NoWrite
    => /\ tui.written.content = tui.written.path
       /\ tui.written.patch = tui.written.path

\* C26: in the file tree, Enter on a focused file that is not the selection
\* selects it and adds nothing to the prompt; Enter on the file that is the
\* selection adds it to the prompt and keeps the selection; Enter on a
\* directory toggles its expansion and selects it
C26_EnterInTree ==
  \A order \in HandlerOrders :
    (tui.visible /\ tui.focused /\ tui.tab = "explorer"
       /\ HasIndex(flatList(tui), tui.focusIndex))
    => LET node == At(flatList(tui), tui.focusIndex)
           r == Dispatch(tui, Key("return"), order, TRUE)
       IN IF node.type = "directory"
            THEN /\ r.selected = node
                 /\ (node.path \in r.expanded) = (node.path \notin tui.expanded)
                 /\ r.expanded \ {node.path} = tui.expanded \ {node.path}
                 /\ r.promptFiles = tui.promptFiles
          ELSE IF tui.selected.path = node.path
            THEN /\ r.promptFiles = Append(tui.promptFiles, node.path)
                 /\ r.selected = tui.selected
          ELSE /\ r.selected = node
               /\ r.promptFiles = tui.promptFiles

\* the tree has the focus on the selected file, which is in the prompt, below
\* an expanded directory
C26_Witness ==
  /\ tui.visible /\ tui.focused /\ tui.tab = "explorer"
  /\ HasIndex(flatList(tui), tui.focusIndex)
  /\ At(flatList(tui), tui.focusIndex) = tui.selected
  /\ tui.selected.type = "file"
  /\ tui.promptFiles = <<tui.selected.path>>
  /\ "src" \in tui.expanded

\* C27: the explorer is focused only while it is visible
C27_FocusedImpliesVisible == tui.focused => tui.visible

\* C28: while the explorer is shown, the focus index is within
\* [0, max(0, n-1)], n being the length of the list of the active tab
C28_FocusIndexInRange ==
  tui.visible
    => 0 <= tui.focusIndex /\ tui.focusIndex <= Max(0, Len(ActiveList(tui)) - 1)

\* C29: an Escape pressed with the explorer focused and a file selected clears
\* the selection and leaves the explorer focused, in whichever order the
\* handlers get the key
C29_EscapeKeepsFocus ==
  \A order \in HandlerOrders :
    (tui.visible /\ tui.focused /\ tui.selected # NoSelection)
    => LET r == Dispatch(tui, Key("escape"), order, TRUE)
       IN r.selected = NoSelection /\ r.focused

\* the step is one in which the handler of session.deleted of sid returns
Completes(sid) ==
  /\ \/ \E spawns \in BOOLEAN : EventHandler(Event("session.deleted", sid), spawns)
     \/ \E code \in {0, 1}, spawns \in BOOLEAN : ProcExited(sid, code, spawns)
  /\ deletion'[sid].pc = "done"

NotLifecycle(tmuxCommand) ==
  /\ CommandMeaning[tmuxCommand].creates = ""
  /\ CommandMeaning[tmuxCommand].kills = ""
  /\ ~CommandMeaning[tmuxCommand].killsServer

\* C31: an interactive_bash call whose command is no session-lifecycle
\* operation leaves the tracked set as it was and adds no reminder to the
\* output, whatever text the command carries; and a
\* call takes a name out of the tracked set only when its command is a
\* kill-session of that name or a kill-server
C31_NonLifecycleChangesNothing ==
  [][ (/\ lastCall' # NoCall
       /\ toolLower[lastCall'.tool] = "interactive_bash"
       /\ ToolExecuteAfter(lastCall'.tool, lastCall'.sessionID, lastCall'.tmux_command))
      => LET sid == lastCall'.sessionID
             cmd == lastCall'.tmux_command
             before == getOrCreateState(sessionStates, persisted, sid).tmuxSessions
         IN /\ NotLifecycle(cmd)
                 => /\ sessionStates'[sid].tmuxSessions = before
                    /\ reminder' = NoReminder
            /\ \A i \in DOMAIN before :
                 ~SetHas(sessionStates'[sid].tmuxSessions, before[i])
                   => \/ CommandMeaning[cmd].kills = before[i]
                      \/ CommandMeaning[cmd].killsServer
    ]_vars

====
